---- MODULE Spec2Model ----
(***************************************************************************)
(* A model of src/src/mutil.py, the sparse-matrix utilities of TensorLog.  *)
(*                                                                         *)
(* A scipy csr_matrix is a record [kind, rows, cols, data, indices,        *)
(* indptr]; the three arrays are sequences, read with 0-based positions    *)
(* through At and Slice.  Stored values are integers (floats holding small *)
(* integers add and multiply exactly).  The objects a caller holds live in *)
(* a heap of three cells: the operands "m1" and "m2" and the value "res"   *)
(* the last call returned.  An operation that alters arrays in place does  *)
(* so on the heap cell it was handed, so that a missing copy shows as a    *)
(* changed operand.                                                        *)
(***************************************************************************)
EXTENDS Integers, Sequences, FiniteSets, TLC

VARIABLES careful, heap, call, ret

vars == <<careful, heap, call, ret>>

\* ---------------------------------------------------------------- bounds
MaxRows == 2
NumCols == 20
MaxRepeat == 2

\* ------------------------------------------------------ program constants
maxExpansion == 3
nullEpsilon == -10

\* ------------------------------------------------------------- sequences
At(s, i) == s[i + 1]

Max2(a, b) == IF a >= b THEN a ELSE b

Min2(a, b) == IF a <= b THEN a ELSE b

Slice(s, lo, hi) == [k \in 1..Max2(hi - lo, 0) |-> s[lo + k]]

RECURSIVE SumSeq(_)
SumSeq(s) == IF Len(s) = 0 THEN 0 ELSE Head(s) + SumSeq(Tail(s))

RECURSIVE Flatten(_)
Flatten(ss) == IF Len(ss) = 0 THEN <<>> ELSE Head(ss) \o Flatten(Tail(ss))

RECURSIVE SeqMax(_)
SeqMax(s) == IF Len(s) = 1 THEN s[1] ELSE Max2(Head(s), SeqMax(Tail(s)))

RECURSIVE SeqMin(_)
SeqMin(s) == IF Len(s) = 1 THEN s[1] ELSE Min2(Head(s), SeqMin(Tail(s)))

\* NP.tile(a, n)
RECURSIVE tile(_, _)
tile(a, n) == IF n = 0 THEN <<>> ELSE a \o tile(a, n - 1)

\* ------------------------------------------------------------ csr_matrix
None == [kind |-> "None"]

csr_matrix(data, indices, indptr, rows, cols) ==
    [kind |-> "csr", rows |-> rows, cols |-> cols,
     data |-> data, indices |-> indices, indptr |-> indptr]

numRows(m) == m.rows

numCols(m) == m.cols

nnz(m) == Len(m.data)

\* A row as a sequence of <<column, value>> entries, in storage order.
RowOf(m, i) ==
    [k \in 1..(At(m.indptr, i + 1) - At(m.indptr, i)) |->
        <<m.indices[At(m.indptr, i) + k], m.data[At(m.indptr, i) + k]>>]

RECURSIVE PtrsOf(_, _)
PtrsOf(rowSeq, lo) ==
    IF Len(rowSeq) = 0 THEN <<>>
    ELSE <<lo + Len(Head(rowSeq))>> \o PtrsOf(Tail(rowSeq), lo + Len(Head(rowSeq)))

\* The csr_matrix whose rows are the given entry sequences.
FromRows(rowSeq, cols) ==
    LET flat == Flatten(rowSeq)
    IN csr_matrix([k \in 1..Len(flat) |-> flat[k][2]],
                  [k \in 1..Len(flat) |-> flat[k][1]],
                  <<0>> \o PtrsOf(rowSeq, 0), Len(rowSeq), cols)

\* The structural invariants of a CSR matrix.
WellFormed(m) ==
    /\ m.kind = "csr"
    /\ Len(m.indptr) = m.rows + 1
    /\ m.indptr[1] = 0
    /\ \A i \in 1..(Len(m.indptr) - 1) : m.indptr[i] <= m.indptr[i + 1]
    /\ m.indptr[Len(m.indptr)] = Len(m.data)
    /\ Len(m.indices) = Len(m.data)
    /\ \A k \in 1..Len(m.indices) : m.indices[k] >= 0 /\ m.indices[k] < m.cols

RowSorted(m, i) ==
    \A k \in (At(m.indptr, i) + 1)..(At(m.indptr, i + 1) - 1) :
        m.indices[k] < m.indices[k + 1]

ColumnSorted(m) == \A i \in 0..(m.rows - 1) : RowSorted(m, i)

\* ----------------------------------------------------------------- inputs
\* Rows are drawn from a pool: empty, narrow, holding a stored zero, sorted and
\* unsorted, spanning the whole width, and holding a logit (800) so large that
\* exp(x - 800) underflows to 0.0 for every other value x of the pool.
LastCol == NumCols - 1

RowPool ==
    { <<>>,
      << <<0, 2>> >>,
      << <<1, 0>>, <<2, 4>> >>,
      << <<0, 1>>, <<1, 3>> >>,
      << <<1, 3>>, <<0, 1>> >>,
      << <<0, 1>>, <<LastCol, 2>> >>,
      << <<LastCol, 800>> >> }

RowPool2 ==
    { <<>>,
      << <<0, 2>>, <<1, 3>> >> }

SeqsUpTo(S, n) == UNION { [1..k -> S] : k \in 0..n }

Mats == { FromRows(rs, NumCols) : rs \in SeqsUpTo(RowPool, MaxRows) }

Mats2 == { FromRows(rs, NumCols) : rs \in SeqsUpTo(RowPool2, MaxRows) }

NoCall == [op |-> "none"]

\* ------------------------------------------------------------ the heap
\* What a call leaves behind: the heap, how it ended, and the cell returned.
Ok(h, mat) == [heap |-> [h EXCEPT !["res"] = mat], status |-> "ok", ref |-> "res"]

Fail(h, err) == [heap |-> [h EXCEPT !["res"] = None], status |-> err, ref |-> "none"]

\* A value computed without touching the heap: a matrix, or the exception raised.
Err(s) == [kind |-> "error", err |-> s]

Lift(h, v) == IF v.kind = "error" THEN Fail(h, v.err) ELSE Ok(h, v)

BadType == "AssertionError: bad type"

ShapeMismatch == "AssertionError: mismatched rows"

\* m.copy(): a fresh object holding copies of m's arrays.
\* variant: the result is the operand itself, no copy made
copy_alias(h, src) == [heap |-> h, ref |-> src]

copy(h, src) == [heap |-> [h EXCEPT !["res"] = h[src]], ref |-> "res"]

\* -------------------------------------------------------------- checkCSR
\* variant: the assertion made whatever the flag says
checkCSR_ignoresFlag(mat) ==
    IF mat.kind # "csr" THEN BadType ELSE "ok"

checkCSR(mat) ==
    IF careful /\ mat.kind # "csr" THEN BadType ELSE "ok"

\* The objects a caller may hand to checkCSR: a matrix, the matrix with one of
\* its arrays damaged, and an object of another type.
Objects(m) ==
    {m,
     [m EXCEPT !.indptr = SubSeq(m.indptr, 1, Len(m.indptr) - 1)],
     [m EXCEPT !.indptr = [i \in DOMAIN m.indptr |-> IF i = 1 THEN 1 ELSE m.indptr[i]]],
     [m EXCEPT !.indptr = [i \in DOMAIN m.indptr |->
                              IF i = Len(m.indptr) THEN m.indptr[i] + 1 ELSE m.indptr[i]]],
     [m EXCEPT !.indices = [k \in DOMAIN m.indices |-> IF k = 1 THEN m.cols ELSE m.indices[k]]],
     [m EXCEPT !.kind = "csc"]}

\* -------------------------------------------------------------- repeat
\* range(0, stop, step) of Python, for step > 0
PyRange(stop, step) == [k \in 1..((stop + step - 1) \div step) |-> (k - 1) * step]

repeat(row, n) ==
    LET d == tile(row.data, n)
        inds == tile(row.indices, n)
    IN IF checkCSR(row) # "ok" THEN Err(BadType)
       ELSE IF numRows(row) # 1 THEN Err("AssertionError: numRows(row)==1")
       ELSE LET numNZCols == At(row.indptr, 1)
            IN IF numNZCols = 0
               THEN Err("ValueError: range() step argument must not be zero")
               ELSE csr_matrix(d, inds, PyRange(numNZCols * n + 1, numNZCols),
                               n, numCols(row))

\* ------------------------------------------------------------ selectRows
\* variant: the last row pointer left at the 0 it was allocated with
selectRows_lastPtrUnset(m, lo, hi) ==
    LET jLo == At(m.indptr, lo)
    IN [i \in 1..(hi - lo + 1) |-> IF i = hi - lo + 1 THEN 0 ELSE m.indptr[lo + i] - jLo]

selectRows_indptr(m, lo, hi) ==
    LET jLo == At(m.indptr, lo)
    IN [i \in 1..(hi - lo + 1) |-> m.indptr[lo + i] - jLo]

\* the copying loop: arr is the new array, src the array of m it is filled from
RECURSIVE selectRows_copy(_, _, _, _, _, _)
selectRows_copy(arr, src, m, indptr, lo, i) ==
    IF i = Len(indptr) - 1 THEN arr
    ELSE LET rowLen == At(m.indptr, lo + i + 1) - At(m.indptr, lo + i)
             base == At(indptr, i)
         IN selectRows_copy(
                [q \in DOMAIN arr |->
                    IF q - 1 >= base /\ q - 1 < base + rowLen
                    THEN At(src, At(m.indptr, lo + i) + (q - 1 - base))
                    ELSE arr[q]],
                src, m, indptr, lo, i + 1)

selectRows(m, lo, hiArg) ==
    LET hi == IF hiArg > numRows(m) THEN numRows(m) ELSE hiArg
        jLo == At(m.indptr, lo)
        jHi == At(m.indptr, hi)
        zeros == [q \in 1..(jHi - jLo) |-> 0]
        indptr == selectRows_indptr(m, lo, hi)
    IN IF checkCSR(m) # "ok" THEN Err(BadType)
       ELSE csr_matrix(selectRows_copy(zeros, m.data, m, indptr, lo, 0),
                       selectRows_copy(zeros, m.indices, m, indptr, lo, 0),
                       indptr, hi - lo, numCols(m))

\* ------------------------------------------------------------ shuffleRows
\* Insert entry e into a row sorted by column.
RECURSIVE InsertByCol(_, _)
InsertByCol(e, row) ==
    IF Len(row) = 0 THEN <<e>>
    ELSE IF e[1] < Head(row)[1] THEN <<e>> \o row
    ELSE <<Head(row)>> \o InsertByCol(e, Tail(row))

RECURSIVE SortRow(_)
SortRow(row) ==
    IF Len(row) = 0 THEN <<>>
    ELSE InsertByCol(row[Len(row)], SortRow(SubSeq(row, 1, Len(row) - 1)))

\* variant: the rows left in the order they were copied
sort_indices_skipped(m) == m

\* result.sort_indices(): every row's entries reordered by ascending column
sort_indices(m) ==
    LET sorted == Flatten([i \in 1..numRows(m) |-> SortRow(RowOf(m, i - 1))])
    IN [m EXCEPT !.data = [k \in DOMAIN m.data |-> sorted[k][2]],
                 !.indices = [k \in DOMAIN m.indices |-> sorted[k][1]]]

Write(arr, pos, v) == [q \in DOMAIN arr |-> IF q - 1 = pos THEN v ELSE arr[q]]

RECURSIVE shuffleRows_copy(_, _, _, _, _)
shuffleRows_copy(arr, src, m, p, st) ==
    \* st = [i, lo]: the loop over rows, copying row p[i] of m to offset lo
    IF st.i = Len(m.indptr) - 1 THEN arr
    ELSE LET r == At(p, st.i)
             rowLen == At(m.indptr, r + 1) - At(m.indptr, r)
         IN shuffleRows_copy(
                [q \in DOMAIN arr |->
                    IF q - 1 >= st.lo /\ q - 1 < st.lo + rowLen
                    THEN At(src, At(m.indptr, r) + (q - 1 - st.lo))
                    ELSE arr[q]],
                src, m, p, [i |-> st.i + 1, lo |-> st.lo + rowLen])

RECURSIVE shuffleRows_indptr(_, _, _, _)
shuffleRows_indptr(indptr, m, p, st) ==
    IF st.i = Len(m.indptr) - 1 THEN indptr
    ELSE LET r == At(p, st.i)
             rowLen == At(m.indptr, r + 1) - At(m.indptr, r)
         IN shuffleRows_indptr(
                Write(Write(indptr, st.i, st.lo), st.i + 1, st.lo + rowLen),
                m, p, [i |-> st.i + 1, lo |-> st.lo + rowLen])

shuffleRows(m, shuffledRowNums) ==
    LET start == [i |-> 0, lo |-> 0]
        data == shuffleRows_copy(m.data, m.data, m, shuffledRowNums, start)
        indices == shuffleRows_copy(m.indices, m.indices, m, shuffledRowNums, start)
        indptr == shuffleRows_indptr(m.indptr, m, shuffledRowNums, start)
    IN IF checkCSR(m) # "ok" THEN Err(BadType)
       ELSE sort_indices(csr_matrix(data, indices, indptr, m.rows, m.cols))

Perms(n) == { p \in [1..n -> 0..(n - 1)] : \A i, j \in 1..n : p[i] = p[j] => i = j }

\* ------------------------------------------------ fixed-point arithmetic
\* softmax leaves probabilities; a probability x is held as the integer
\* nearest to x * SCALE.  ExpTable[k + 1] is exp(-k) in that form.
ExpTable ==
    <<10000000, 3678794, 1353353, 497871, 183156, 67379, 24788, 9119, 3355,
      1234, 454, 167, 61, 23, 8, 3, 1>>

SCALE == ExpTable[1]

\* math.exp(d) for d <= 0: 0.0 once d is below the smallest subnormal's
\* logarithm (-745.13); between -16 and -745 the table has no entry, and no
\* input of the model produces such a difference.
Exp(d) == IF d <= -746 THEN 0 ELSE ExpTable[1 - d]

\* x / n for 0 <= x <= n, by long division to seven decimal places.
RECURSIVE FDivStep(_, _, _, _)
FDivStep(q, r, n, k) ==
    IF k = 0 THEN q
    ELSE FDivStep(q * 10 + ((r * 10) \div n), (r * 10) % n, n, k - 1)

FDiv(x, n) == FDivStep(x \div n, x % n, n, 7)

\* ------------------------------------------------------- alterMatrixRows
\* A Python closure is a record: the function's name and what it captured.
\* Each alteration returns the data array as it leaves it.
RECURSIVE dictOf(_)
dictOf(entries) ==
    \* dict(generator of (key, value)): a later pair replaces an earlier one
    IF Len(entries) = 0 THEN <<>>
    ELSE LET e == entries[Len(entries)]
             rest == dictOf(SubSeq(entries, 1, Len(entries) - 1))
         IN [c \in DOMAIN rest \cup {e[1]} |-> IF c = e[1] THEN e[2] ELSE rest[c]]

dictGet(d, key, default) == IF key \in DOMAIN d THEN d[key] ELSE default

multiplyByVAlteration(vd, data, lo, hi, indices) ==
    [q \in DOMAIN data |->
        IF q - 1 >= lo /\ q - 1 < hi
        THEN data[q] * dictGet(vd, indices[q], 0)
        ELSE data[q]]

softMaxAlteration(data, lo, hi, unused) ==
    LET rowMax == SeqMax(Slice(data, lo, hi))
        exps == [q \in DOMAIN data |->
                    IF q - 1 >= lo /\ q - 1 < hi THEN Exp(data[q] - rowMax) ELSE data[q]]
        rowNorm == SumSeq(Slice(exps, lo, hi))
    IN [q \in DOMAIN data |->
           IF q - 1 >= lo /\ q - 1 < hi
           THEN IF FDiv(exps[q], rowNorm) = 0 THEN Exp(nullEpsilon)
                ELSE FDiv(exps[q], rowNorm)
           ELSE data[q]]

callAlteration(f, data, lo, hi, indices) ==
    IF f.name = "multiplyByVAlteration"
    THEN multiplyByVAlteration(f.vd, data, lo, hi, indices)
    ELSE softMaxAlteration(data, lo, hi, indices)

RECURSIVE alterLoop(_, _, _, _)
alterLoop(mat, alterationFun, data, i) ==
    IF i = numRows(mat) THEN data
    ELSE alterLoop(mat, alterationFun,
                   callAlteration(alterationFun, data, At(mat.indptr, i),
                                  At(mat.indptr, i + 1), mat.indices),
                   i + 1)

alterMatrixRows(h, ref, alterationFun) ==
    [h EXCEPT ![ref].data = alterLoop(h[ref], alterationFun, h[ref].data, 0)]

\* ----------------------------------------- broadcastAndComponentwiseMultiply
\* m1.multiply(m2) of scipy for equal shapes: the entries whose column both
\* rows store and whose product is not zero, by ascending column.
RECURSIVE SetToSortedSeq(_)
SetToSortedSeq(S) ==
    IF S = {} THEN <<>>
    ELSE LET x == CHOOSE y \in S : \A z \in S : y <= z
         IN <<x>> \o SetToSortedSeq(S \ {x})

ColsOf(row) == { row[k][1] : k \in DOMAIN row }

\* the value a row holds at column c: its entries there, summed
RECURSIVE ValueAt(_, _)
ValueAt(row, c) ==
    IF Len(row) = 0 THEN 0
    ELSE (IF Head(row)[1] = c THEN Head(row)[2] ELSE 0) + ValueAt(Tail(row), c)

multiplyRow(ra, rb) ==
    LET cs == SetToSortedSeq({ c \in ColsOf(ra) \cap ColsOf(rb) :
                                  ValueAt(ra, c) * ValueAt(rb, c) # 0 })
    IN [k \in DOMAIN cs |-> <<cs[k], ValueAt(ra, cs[k]) * ValueAt(rb, cs[k])>>]

multiply(a, b) ==
    FromRows([i \in 1..numRows(a) |-> multiplyRow(RowOf(a, i - 1), RowOf(b, i - 1))],
             numCols(a))

multiplyByBroadcastRowVec(h, m, v) ==
    IF Len(h[v].indptr) < 2 THEN Fail(h, "IndexError: index 1 is out of bounds")
    ELSE LET vd == dictOf(RowOf(h[v], 0))
             result == copy(h, m)
             altered == alterMatrixRows(result.heap, result.ref,
                                        [name |-> "multiplyByVAlteration", vd |-> vd])
         IN [heap |-> altered, status |-> "ok", ref |-> result.ref]

\* variant: the assertion dropped
broadcastable_unchecked(r1, r2) == TRUE

\* assert r1==1 or r2==1
broadcastable(r1, r2) == r1 = 1 \/ r2 = 1

broadcastAndComponentwiseMultiply(h, m1, m2) ==
    LET r1 == numRows(h[m1])
        r2 == numRows(h[m2])
    IN IF checkCSR(h[m1]) # "ok" \/ checkCSR(h[m2]) # "ok" THEN Fail(h, BadType)
       ELSE IF r1 = r2 THEN Ok(h, multiply(h[m1], h[m2]))
       ELSE IF ~broadcastable(r1, r2) THEN Fail(h, ShapeMismatch)
       ELSE IF r1 = 1 THEN multiplyByBroadcastRowVec(h, m1, m2)
       ELSE IF r2 = 1 THEN multiplyByBroadcastRowVec(h, m1, m2)
       ELSE Fail(h, "NameError: name 'result' is not defined")

\* ------------------------------------------------ broadcastAndWeightByRowSum
\* variant: the sum of all of m's values, as in the r2 == 1 branch
rowSum_wholeMatrix(m, i) == SumSeq(m.data)

\* m.data[m.indptr[i]:m.indptr[i+1]].sum()
rowSum(m, i) == SumSeq(Slice(m.data, At(m.indptr, i), At(m.indptr, i + 1)))

\* result.data[lo:hi] *= w, for each row i of the cell ref
RECURSIVE scaleRows(_, _, _, _)
scaleRows(h, ref, m2, i) ==
    IF i = numRows(h[ref]) THEN h
    ELSE LET w == rowSum(m2, i)
             lo == At(h[ref].indptr, i)
             hi == At(h[ref].indptr, i + 1)
         IN scaleRows([h EXCEPT ![ref].data =
                          [q \in DOMAIN @ |->
                              IF q - 1 >= lo /\ q - 1 < hi THEN @[q] * w ELSE @[q]]],
                      ref, m2, i + 1)

\* the arrays of the broadcast case, filled row by row
RECURSIVE weightLoop(_, _, _, _)
weightLoop(m1, m2, acc, i) ==
    IF i = numRows(m2) THEN acc
    ELSE LET w == rowSum(m2, i)
             nnz1 == Len(m1.data)
         IN weightLoop(m1, m2,
                [data |-> [q \in DOMAIN acc.data |->
                              IF q - 1 >= acc.ptr /\ q - 1 < acc.ptr + nnz1
                              THEN At(m1.data, q - 1 - acc.ptr) * w ELSE acc.data[q]],
                 indices |-> [q \in DOMAIN acc.indices |->
                              IF q - 1 >= acc.ptr /\ q - 1 < acc.ptr + nnz1
                              THEN At(m1.indices, q - 1 - acc.ptr) ELSE acc.indices[q]],
                 indptr |-> Write(acc.indptr, i + 1, At(acc.indptr, i) + nnz1),
                 ptr |-> acc.ptr + nnz1],
                i + 1)

broadcastAndWeightByRowSum(h, m1, m2) ==
    LET r1 == numRows(h[m1])
        r2 == numRows(h[m2])
    IN IF checkCSR(h[m1]) # "ok" \/ checkCSR(h[m2]) # "ok" THEN Fail(h, BadType)
       ELSE IF r2 = 1
       THEN Ok(h, [h[m1] EXCEPT !.data = [q \in DOMAIN @ |-> @[q] * SumSeq(h[m2].data)]])
       ELSE IF r1 = 1 /\ r2 > 1
       THEN LET nnz1 == Len(h[m1].data)
                fin == weightLoop(h[m1], h[m2],
                          [data |-> [q \in 1..(nnz1 * r2) |-> 0],
                           indices |-> [q \in 1..(nnz1 * r2) |-> 0],
                           indptr |-> [q \in 1..(r2 + 1) |-> 0],
                           ptr |-> 0], 0)
            IN Ok(h, csr_matrix(fin.data, fin.indices, fin.indptr,
                                h[m2].rows, h[m2].cols))
       ELSE IF r1 # r2 THEN Fail(h, ShapeMismatch)
       ELSE LET result == copy(h, m1)
            IN [heap |-> scaleRows(result.heap, result.ref, h[m2], 0),
                status |-> "ok", ref |-> result.ref]

\* ----------------------------------------------------------- dense bridge
\* A numpy matrix: its rows, each a sequence of numCols cells.
denseMatrix(cells, r, c) == [kind |-> "dense", rows |-> r, cols |-> c, cells |-> cells]

\* csr_matrix(...).todense(): each cell holds the sum of the entries stored there
todense(m) ==
    denseMatrix([i \in 1..numRows(m) |->
                    [j \in 1..numCols(m) |-> ValueAt(RowOf(m, i - 1), j - 1)]],
                numRows(m), numCols(m))

\* csr_matrix(denseMat): the nonzero cells, row by row, by ascending column
FromDense(d) ==
    FromRows([i \in 1..d.rows |->
                 LET cs == SetToSortedSeq({ j \in 1..d.cols : d.cells[i][j] # 0 })
                 IN [k \in DOMAIN cs |-> <<cs[k] - 1, d.cells[i][cs[k]]>>]],
             d.cols)

\* result.eliminate_zeros()
eliminate_zeros(m) ==
    FromRows([i \in 1..numRows(m) |->
                 SelectSeq(RowOf(m, i - 1), LAMBDA e : e[2] # 0)],
             numCols(m))

densify(mat) ==
    IF Len(mat.indices) = 0
    THEN Err("ValueError: zero-size array to reduction operation maximum")
    ELSE LET hiIndex == SeqMax(mat.indices)
             loIndex == SeqMin(mat.indices)
             denseSize == (hiIndex - loIndex) * numRows(mat)
             sparseSize == numRows(mat) + 1 + 2 * nnz(mat)
         IN IF denseSize > sparseSize * maxExpansion
            THEN [kind |-> "pair", D |-> None, info |-> None]
            ELSE [kind |-> "pair",
                  D |-> todense(csr_matrix(mat.data,
                                           [k \in DOMAIN mat.indices |->
                                               mat.indices[k] - loIndex],
                                           mat.indptr, numRows(mat),
                                           hiIndex - loIndex + 1)),
                  info |-> [kind |-> "info", loIndex |-> loIndex,
                            numCols |-> numCols(mat)]]

\* variant: the band's own column numbers kept
shiftIndices_unshifted(indices, loIndex) == indices

\* tmp.indices + loIndex
shiftIndices(indices, loIndex) == [k \in DOMAIN indices |-> indices[k] + loIndex]

undensify(denseMat, info) ==
    IF info.kind = "None" THEN Err("TypeError: 'NoneType' object is not iterable")
    ELSE LET tmp == FromDense(denseMat)
         IN eliminate_zeros(csr_matrix(tmp.data, shiftIndices(tmp.indices, info.loIndex),
                                       tmp.indptr, denseMat.rows, info.numCols))

\* ---------------------------------------------------------------- softmax
\* db.nullMatrix(1): one row holding 1.0 at the null entity's column
nullMatrix(nullCol, cols) == FromRows(<< << <<nullCol, 1>> >> >>, cols)

\* a + b of scipy for equal shapes: the columns either row stores, by ascending
\* column, without the entries whose sum is zero
add(a, b) ==
    FromRows([i \in 1..numRows(a) |->
                 LET ra == RowOf(a, i - 1)
                     rb == RowOf(b, i - 1)
                     cs == SetToSortedSeq({ c \in ColsOf(ra) \cup ColsOf(rb) :
                                               ValueAt(ra, c) + ValueAt(rb, c) # 0 })
                 IN [k \in DOMAIN cs |-> <<cs[k], ValueAt(ra, cs[k]) + ValueAt(rb, cs[k])>>]],
             numCols(a))

denseSoftmaxRow(row) ==
    LET rowMax == SeqMax(row)
        e_m == [j \in DOMAIN row |-> IF row[j] # 0 THEN Exp(row[j] - rowMax) ELSE 0]
        total == SumSeq(e_m)
    IN IF total = 0 THEN <<>> ELSE [j \in DOMAIN row |-> FDiv(e_m[j], total)]

denseSoftmax(m) ==
    IF \E i \in 1..m.rows : denseSoftmaxRow(m.cells[i]) = <<>>
    THEN Err("FloatingPointError: invalid value encountered in divide")
    ELSE denseMatrix([i \in 1..m.rows |-> denseSoftmaxRow(m.cells[i])], m.rows, m.cols)

softmax(h, nullCol, mat) ==
    LET scaled == [nullMatrix(nullCol, numCols(h[mat])) EXCEPT
                      !.data = [q \in DOMAIN @ |-> @[q] * nullEpsilon]]
        tiled == repeat(scaled, numRows(h[mat]))
    IN IF tiled.kind = "error" THEN Fail(h, tiled.err)
       ELSE LET result == add(tiled, h[mat])
                pair == densify(result)
            IN IF pair.kind = "error" THEN Fail(h, pair.err)
               ELSE IF pair.D # None
               THEN LET sm == denseSoftmax(pair.D)
                    IN IF sm.kind = "error" THEN Fail(h, sm.err)
                       ELSE Lift(h, undensify(sm, pair.info))
               ELSE [heap |-> alterMatrixRows([h EXCEPT !["res"] = result], "res",
                                              [name |-> "softMaxAlteration"]),
                     status |-> "ok", ref |-> "res"]

\* --------------------------------------------------------------- actions
Return(c, r) ==
    /\ heap' = r.heap
    /\ ret' = [status |-> r.status, ref |-> r.ref]
    /\ call' = c
    /\ UNCHANGED careful

\* Every call is made on the operands as the caller built them; what a call
\* returned is handed to no later call, except densify's pair to undensify.
Idle == call.op = "none"

CheckStructure ==
    /\ Idle
    /\ \E o \in Objects(heap["m1"]) :
          LET st == checkCSR(o)
          IN Return([op |-> "checkCSR", obj |-> o],
                    IF st = "ok" THEN [heap |-> heap, status |-> "ok", ref |-> "none"]
                    ELSE Fail(heap, st))

SelectRows ==
    /\ Idle
    /\ \E lo \in 0..numRows(heap["m1"]) : \E hi \in lo..(numRows(heap["m1"]) + 1) :
          Return([op |-> "selectRows", lo |-> lo, hi |-> hi],
                 Lift(heap, selectRows(heap["m1"], lo, hi)))

ShuffleRows ==
    /\ Idle
    /\ \E p \in Perms(numRows(heap["m1"])) :
          Return([op |-> "shuffleRows", perm |-> p],
                 Lift(heap, shuffleRows(heap["m1"], p)))

Repeat ==
    /\ Idle
    /\ \E n \in 1..MaxRepeat :
          Return([op |-> "repeat", n |-> n], Lift(heap, repeat(heap["m1"], n)))

ComponentwiseMultiply ==
    /\ Idle
    /\ \E a, b \in {"m1", "m2"} :
          /\ a # b
          /\ Return([op |-> "componentwiseMultiply", m1 |-> a, m2 |-> b],
                    broadcastAndComponentwiseMultiply(heap, a, b))

WeightByRowSum ==
    /\ Idle
    /\ \E a, b \in {"m1", "m2"} :
          /\ a # b
          /\ Return([op |-> "weightByRowSum", m1 |-> a, m2 |-> b],
                    broadcastAndWeightByRowSum(heap, a, b))

Densify ==
    /\ Idle
    /\ Return([op |-> "densify"], Lift(heap, densify(heap["m1"])))

Undensify ==
    /\ call.op = "densify"
    /\ ret.status = "ok"
    /\ Return([op |-> "undensify"],
              Lift(heap, undensify(heap["res"].D, heap["res"].info)))

Softmax ==
    /\ Idle
    /\ \E nullCol \in {0, 1, LastCol} :
          Return([op |-> "softmax", nullCol |-> nullCol], softmax(heap, nullCol, "m1"))

\* ------------------------------------------------------------------ spec
Init ==
    /\ careful \in BOOLEAN
    /\ \E a \in Mats : \E b \in Mats2 :
          heap = [r \in {"m1", "m2", "res"} |->
                     IF r = "m1" THEN a ELSE IF r = "m2" THEN b ELSE None]
    /\ call = NoCall
    /\ ret = [status |-> "none", ref |-> "none"]

Next ==
    \/ CheckStructure
    \/ SelectRows
    \/ ShuffleRows
    \/ Repeat
    \/ ComponentwiseMultiply
    \/ WeightByRowSum
    \/ Densify
    \/ Undensify
    \/ Softmax

Spec == Init /\ [][Next]_vars

\* ----------------------------------------------------------------- claims
Res == heap["res"]

Returned == ret.status = "ok" /\ ret.ref = "res"

\* the value a single row holds at column c, 0 when it stores none
LookUp(single, c) == dictGet(dictOf(RowOf(single, 0)), c, 0)

Triples(m) ==
    UNION { { <<i, RowOf(m, i)[k][1], RowOf(m, i)[k][2]>> : k \in DOMAIN RowOf(m, i) } :
              i \in 0..(m.rows - 1) }

\* C1: componentwiseMultiply of a single-row operand and an operand of R # 1
\* rows, in either argument order, returns R rows with the multi-row operand's
\* rowPtr and colIndices, each value multiplied by the single row's value at
\* its column (0 if the single row stores none).
BroadcastProduct(single, multi) ==
    /\ Returned
    /\ Res.rows = multi.rows
    /\ Res.indptr = multi.indptr
    /\ Res.indices = multi.indices
    /\ Len(Res.data) = Len(multi.data)
    /\ \A k \in DOMAIN multi.data :
          Res.data[k] = multi.data[k] * LookUp(single, multi.indices[k])

C1_BroadcastMultiplyEitherOrder ==
    call.op = "componentwiseMultiply" =>
        LET a == heap[call.m1]
            b == heap[call.m2]
        IN /\ (a.rows = 1 /\ b.rows # 1) => BroadcastProduct(a, b)
           /\ (b.rows = 1 /\ a.rows # 1) => BroadcastProduct(b, a)

\* C2 (as stated): with the careful flag on, checkCSR fails exactly for the
\* objects that violate the structural invariants; with the flag off it never
\* fails.
C2_CheckFailsOnMalformedArrays ==
    call.op = "checkCSR" =>
        IF careful THEN (ret.status # "ok") <=> ~WellFormed(call.obj)
        ELSE ret.status = "ok"

\* C2 (amended): with the careful flag on, checkCSR fails exactly for the
\* objects that are not of type csr_matrix, whatever their arrays hold; with
\* the flag off it never fails.
C2_CheckFailsOnTypeOnly ==
    call.op = "checkCSR" =>
        IF careful THEN (ret.status = BadType) <=> (call.obj.kind # "csr")
        ELSE ret.status = "ok"

C2_Witness ==
    /\ call.op = "checkCSR"
    /\ careful
    /\ call.obj.kind = "csr"
    /\ Len(call.obj.indptr) = call.obj.rows
    /\ ret.status = "ok"

Incompatible(r1, r2) == r1 # r2 /\ r1 # 1 /\ r2 # 1

NothingReturned == ret.ref = "none" /\ Res = None

\* C3 (as stated): componentwiseMultiply and weightByRowSum end in a
\* shape-mismatch failure, returning nothing, exactly when the row counts
\* differ and neither is 1.
C3_MismatchIffNeitherSingle ==
    call.op \in {"componentwiseMultiply", "weightByRowSum"} =>
        LET r1 == heap[call.m1].rows
            r2 == heap[call.m2].rows
        IN IF Incompatible(r1, r2)
           THEN ret.status = ShapeMismatch /\ NothingReturned
           ELSE ret.status # ShapeMismatch

\* C3 (amended): as stated, except that weightByRowSum(m1, m2) with
\* rows(m1) = 1 and rows(m2) = 0 also ends in the shape-mismatch failure.
C3_MismatchIffNeitherSingleOrOneByZero ==
    call.op \in {"componentwiseMultiply", "weightByRowSum"} =>
        LET r1 == heap[call.m1].rows
            r2 == heap[call.m2].rows
        IN IF Incompatible(r1, r2)
              \/ (call.op = "weightByRowSum" /\ r1 = 1 /\ r2 = 0)
           THEN ret.status = ShapeMismatch /\ NothingReturned
           ELSE ret.status # ShapeMismatch

C3_Witness ==
    /\ call.op = "componentwiseMultiply"
    /\ heap[call.m1].rows = 2
    /\ heap[call.m2].rows = 0
    /\ ret.status = ShapeMismatch

\* C4: selectRows(m, lo, hi) with 0 <= lo <= rows(m) and hi >= lo returns a
\* well-formed matrix of min(hi, rows(m)) - lo rows and cols(m) columns whose
\* row i is m's row lo + i, entry for entry; selecting [0, rows(m)) returns m.
C4_SelectRows ==
    call.op = "selectRows" =>
        LET m == heap["m1"]
            hi == Min2(call.hi, m.rows)
        IN /\ Returned
           /\ WellFormed(Res)
           /\ Res.rows = hi - call.lo
           /\ Res.cols = m.cols
           /\ Res.indptr[1] = 0
           /\ Res.indptr[Len(Res.indptr)] = Len(Res.data)
           /\ \A i \in 0..(hi - call.lo - 1) : RowOf(Res, i) = RowOf(m, call.lo + i)
           /\ (call.lo = 0 /\ call.hi >= m.rows) => Res = m

C4_Witness ==
    /\ call.op = "selectRows"
    /\ Returned
    /\ call.lo = 1
    /\ call.hi > heap["m1"].rows
    /\ At(heap["m1"].indptr, 1) > 0
    /\ Len(Res.data) > 0

\* C5: repeat(row, n) of a single-row matrix, with any number of stored
\* entries, returns n rows, each row's entries those of the single row, with
\* rowPtr[i] = i * nnz(row); if row has not exactly one row the call fails.
C5_RepeatAnySingleRow ==
    call.op = "repeat" =>
        LET row == heap["m1"]
        IN IF row.rows = 1
           THEN /\ Returned
                /\ Res.rows = call.n
                /\ Res.cols = row.cols
                /\ Len(Res.indptr) = call.n + 1
                /\ \A i \in 0..call.n : At(Res.indptr, i) = i * Len(row.data)
                /\ \A i \in 0..(call.n - 1) : RowOf(Res, i) = RowOf(row, 0)
           ELSE ret.status # "ok"

\* C6: weightByRowSum(m1, m2) with rows(m1) = 1 and rows(m2) > 1 returns
\* rows(m2) rows of nnz(m1) entries each, rowPtr[i] = i * nnz(m1); row i has
\* m1's columns in m1's order and m1's values times the sum of m2's row i.
C6_WeightByRowSumBroadcast ==
    (call.op = "weightByRowSum" /\ heap[call.m1].rows = 1 /\ heap[call.m2].rows > 1) =>
        LET m1 == heap[call.m1]
            m2 == heap[call.m2]
            n1 == Len(m1.data)
        IN /\ Returned
           /\ Res.rows = m2.rows
           /\ Len(Res.data) = n1 * m2.rows
           /\ Len(Res.indices) = n1 * m2.rows
           /\ Len(Res.indptr) = m2.rows + 1
           /\ \A i \in 0..m2.rows : At(Res.indptr, i) = i * n1
           /\ \A i \in 0..(m2.rows - 1) : \A j \in 0..(n1 - 1) :
                 /\ At(Res.indices, i * n1 + j) = At(m1.indices, j)
                 /\ At(Res.data, i * n1 + j)
                       = At(m1.data, j) * SumSeq([k \in DOMAIN RowOf(m2, i) |-> RowOf(m2, i)[k][2]])

C6_Witness ==
    /\ call.op = "weightByRowSum"
    /\ Returned
    /\ heap[call.m1].rows = 1
    /\ Len(heap[call.m1].data) = 2
    /\ heap[call.m2].rows = 2
    /\ \E k \in DOMAIN Res.data : Res.data[k] = 0
    /\ \E k \in DOMAIN Res.data : Res.data[k] > 3

\* the condition under which densify returns the dense band
Qualifies(m) ==
    /\ Len(m.data) >= 1
    /\ m.rows * (SeqMax(m.indices) - SeqMin(m.indices))
          <= maxExpansion * (m.rows + 1 + 2 * Len(m.data))

\* C7: densify returns the band exactly for the matrices that qualify, and for
\* those undensify(densify(m)) has m's shape, the (row, column, value) triples
\* of m's nonzero stored values, and no stored zero.
C7_DensifyUndensifyRoundTrip ==
    LET m == heap["m1"]
    IN /\ (call.op = "densify" /\ Len(m.data) >= 1) =>
              (Returned /\ ((Res.D # None) <=> Qualifies(m)))
       /\ (call.op = "undensify" /\ Qualifies(m)) =>
              /\ Returned
              /\ WellFormed(Res)
              /\ Res.rows = m.rows
              /\ Res.cols = m.cols
              /\ Triples(Res) = { t \in Triples(m) : t[3] # 0 }
              /\ Cardinality(Triples(Res)) = Len(Res.data)
              /\ \A k \in DOMAIN Res.data : Res.data[k] # 0

C7_Witness ==
    /\ call.op = "undensify"
    /\ Returned
    /\ SeqMin(heap["m1"].indices) > 0
    /\ \E k \in DOMAIN heap["m1"].data : heap["m1"].data[k] = 0
    /\ Len(Res.data) = 1

\* C8: shuffleRows(m, p) for a permutation p returns a well-formed matrix of
\* m's shape and nnz whose row i holds the entries of m's row p[i], by
\* ascending column; the identity permutation of a column-sorted m returns m.
C8_ShuffleRows ==
    call.op = "shuffleRows" =>
        LET m == heap["m1"]
            p == call.perm
        IN /\ Returned
           /\ WellFormed(Res)
           /\ Res.rows = m.rows
           /\ Res.cols = m.cols
           /\ Len(Res.data) = Len(m.data)
           /\ ColumnSorted(Res)
           /\ \A i \in 0..(m.rows - 1) :
                 /\ Len(RowOf(Res, i)) = Len(RowOf(m, At(p, i)))
                 /\ { RowOf(Res, i)[k] : k \in DOMAIN RowOf(Res, i) }
                       = { RowOf(m, At(p, i))[k] : k \in DOMAIN RowOf(m, At(p, i)) }
           /\ ((\A i \in 0..(m.rows - 1) : At(p, i) = i) /\ ColumnSorted(m)) => Res = m

C8_Witness ==
    /\ call.op = "shuffleRows"
    /\ Returned
    /\ heap["m1"].rows = 2
    /\ At(call.perm, 0) = 1
    /\ ~ColumnSorted(heap["m1"])
    /\ Len(RowOf(heap["m1"], 0)) # Len(RowOf(heap["m1"], 1))

\* one part in a million, in the fixed-point form of a probability
Tolerance == SCALE \div (10 ^ 6)

\* C9: every row of softmax's result sums to 1.0 within 1e-6 and holds no
\* negative value, on the dense path and on the sparse path, the rows with a
\* value replaced by the floor exp(nullEpsilon) included.
C9_SoftmaxRowsSumToOne ==
    (call.op = "softmax" /\ Returned) =>
        \A i \in 0..(Res.rows - 1) :
            LET total == SumSeq([k \in DOMAIN RowOf(Res, i) |-> RowOf(Res, i)[k][2]])
            IN /\ total >= SCALE - Tolerance
               /\ total <= SCALE + Tolerance
               /\ \A k \in DOMAIN RowOf(Res, i) : RowOf(Res, i)[k][2] >= 0

\* C10: no operation changes the values, colIndices, rowPtr or shape of an
\* operand matrix.
C10_OperandsUnchanged ==
    [][heap'["m1"] = heap["m1"] /\ heap'["m2"] = heap["m2"]]_vars

C10_Witness ==
    /\ call.op \in {"componentwiseMultiply", "weightByRowSum"}
    /\ Returned
    /\ heap[call.m1].rows = 2
    /\ Len(heap[call.m1].data) > 0
    /\ Res.indices = heap[call.m1].indices
    /\ Res.data # heap[call.m1].data

====
